---- MODULE Spec2Model ----
(***************************************************************************)
(* The reconciliation store of src/src/hooks/useReconciliation.ts: the     *)
(* bank and system ledgers, the reconciliation entries, the file uploads   *)
(* and the current user, with one action per mutator of the hook, and the  *)
(* screens of src/src/App.tsx that call the mutators: the selections they  *)
(* keep and the role checks under which they offer their forms.            *)
(*                                                                         *)
(* Strings built from Date.now() are modelled by the number they embed:    *)
(* the entry id `rec-${Date.now()}` is the clock value, the entry id       *)
(* 'rec-1' of the seed data is 1.  A transaction id is <<prefix, n, i>>:   *)
(* 'bank-1' is <<"bank", 1, 0>>, `bank-${Date.now()}` is <<"bank", t, 0>>, *)
(* `bank-upload-${Date.now()}-${i}` is <<"bank-upload", t, i>> and the     *)
(* seeded `bank-file-1-3` is <<"bank-file", 1, 3>>.  The other formatted   *)
(* texts (description, reference, transId) are the tuples of their parts,  *)
(* dates are <<year, month, day>>, amounts are in cents.                   *)
(* An optional field that is absent holds Undefined.                       *)
(***************************************************************************)
EXTENDS Integers, Sequences, FiniteSets, TLC

VARIABLES
    bankTransactions,       \* useState<Transaction[]>(mockBankTransactions)
    systemTransactions,     \* useState<Transaction[]>(mockSystemTransactions)
    reconciliationEntries,  \* useState<ReconciliationEntry[]>(...)
    fileUploads,            \* useState<FileUpload[]>(mockFileUploads)
    currentUser,            \* useState<User>(mockUsers[0])
    now,                    \* the value Date.now() returns
    steps,                  \* number of steps taken so far
    approvedInRun,          \* history: positions of the entries approveReconciliation was applied to
    selectedBankTransaction,    \* App: useState<Transaction | null>(null)
    selectedSystemTransaction,  \* App: useState<Transaction | null>(null)
    selectedEntry,          \* ApprovalQueue: useState<string | null>(null)
    selectedFile,           \* FileUploadManager: useState<string | null>(null)
    paginatedData,          \* FileUploadManager: useState<PaginatedResponse<FileUpload> | null>(null)
    searchParams,           \* FileUploadManager: useState<FileUploadSearchParams>(...)
    debounceTimers,         \* debounced searches waiting for their 500 ms, oldest first
    inFlight,               \* searches waiting for their 300 ms, oldest first
    isLoading,              \* useState(false): a search is awaited, the list is hidden
    searchedFiles           \* history: the fileUploads the last completed search read

vars == <<bankTransactions, systemTransactions, reconciliationEntries,
          fileUploads, currentUser, now, steps, approvedInRun,
          selectedBankTransaction, selectedSystemTransaction, selectedEntry,
          selectedFile, paginatedData, searchParams, debounceTimers, inFlight,
          isLoading, searchedFiles>>

\* the search of the file screen: its parameters and the requests under way
searching == <<searchParams, debounceTimers, inFlight, isLoading, searchedFiles>>

\* the state of the screens
screens == <<selectedBankTransaction, selectedSystemTransaction, selectedEntry,
             selectedFile, paginatedData, searching>>

store == <<bankTransactions, systemTransactions, reconciliationEntries,
           fileUploads, currentUser>>

----------------------------------------------------------------------------
(* Bounds *)

\* steps explored from the seed data
MaxSteps == 3
\* first value of the clock; the seed ids 1..3 lie below it
ClockStart == 10
\* the reconcile form is submitted for transactions among the first MaxPick
\* of each ledger
MaxPick == 3

\* events of the screens explored from the seed data
MaxEvents == 4
\* steps of the search specification, pages and page sizes a search asks for
MaxSearchSteps == 2
MaxPage == 3
MaxPageSize == 2

Undefined == "undefined"
\* a selection is null or one value: the empty or the one-element sequence
Null == << >>

\* FileUploadManager: the initial searchParams
defaultSearchParams ==
    [page |-> 1, pageSize |-> 10, organization |-> "all", schedule |-> "all",
     status |-> "all", searchTerm |-> ""]

\* rejection reasons a caller passes: a text and a blank one
ReasonInputs == {"mismatch", " "}
CommentInputs == {Undefined}
AmountInputs == {50000}

----------------------------------------------------------------------------
(* Seed data: src/src/data/mockData.ts *)

mockUsers ==
    << [id |-> "1", name |-> "John Doe",   role |-> "maker",   email |-> "john@company.com"],
       [id |-> "2", name |-> "Jane Smith", role |-> "checker", email |-> "jane@company.com"],
       [id |-> "3", name |-> "Admin User", role |-> "admin",   email |-> "admin@company.com"] >>

UserRole == {"maker", "checker", "admin"}

mockBankTransactions ==
    << [id |-> <<"bank", 1, 0>>, date |-> <<2024, 1, 15>>, amount |-> 125000,
        description |-> <<"Payment from ABC Corp">>, type |-> "credit",
        reference |-> <<"TXN-2024-001">>, status |-> "unreconciled",
        source |-> "bank", accountId |-> "ACC-001", transId |-> <<"B001">>],
       [id |-> <<"bank", 2, 0>>, date |-> <<2024, 1, 16>>, amount |-> 85075,
        description |-> <<"Office Supplies Purchase">>, type |-> "debit",
        reference |-> <<"TXN-2024-002">>, status |-> "unreconciled",
        source |-> "bank", accountId |-> "ACC-002", transId |-> <<"B002">>],
       [id |-> <<"bank", 3, 0>>, date |-> <<2024, 1, 17>>, amount |-> 210000,
        description |-> <<"Service Fee Payment">>, type |-> "credit",
        reference |-> <<"TXN-2024-003">>, status |-> "unreconciled",
        source |-> "bank", accountId |-> "ACC-003", transId |-> <<"B003">>] >>

mockSystemTransactions ==
    << [id |-> <<"sys", 1, 0>>, date |-> <<2024, 1, 15>>, amount |-> 125000,
        description |-> <<"ABC Corp Invoice Payment">>, type |-> "credit",
        reference |-> <<"INV-2024-001">>, status |-> "unreconciled",
        source |-> "system", accountId |-> "ACC-001", transId |-> <<"S001">>],
       [id |-> <<"sys", 2, 0>>, date |-> <<2024, 1, 16>>, amount |-> 85075,
        description |-> <<"Office Supplies - Staples">>, type |-> "debit",
        reference |-> <<"PO-2024-001">>, status |-> "unreconciled",
        source |-> "system", accountId |-> "ACC-002", transId |-> <<"S002">>],
       [id |-> <<"sys", 3, 0>>, date |-> <<2024, 1, 17>>, amount |-> 210000,
        description |-> <<"Professional Services">>, type |-> "credit",
        reference |-> <<"SVC-2024-001">>, status |-> "unreconciled",
        source |-> "system", accountId |-> "ACC-003", transId |-> <<"S003">>] >>

mockReconciliationEntries ==
    << [id |-> 1, bankTransactionId |-> <<"bank", 1, 0>>,
        systemTransactionId |-> <<"sys", 1, 0>>,
        createdBy |-> "John Doe", createdAt |-> 1,
        approvedBy |-> Undefined, approvedAt |-> 0,
        status |-> "pending_approval",
        comments |-> "Amounts and dates match perfectly",
        rejectionReason |-> Undefined],
       [id |-> 2, bankTransactionId |-> <<"bank", 2, 0>>,
        systemTransactionId |-> <<"sys", 2, 0>>,
        createdBy |-> "John Doe", createdAt |-> 2,
        approvedBy |-> "Jane Smith", approvedAt |-> 3,
        status |-> "approved",
        comments |-> "Verified with purchase order. All documentation matches.",
        rejectionReason |-> Undefined],
       [id |-> 3, bankTransactionId |-> <<"bank", 3, 0>>,
        systemTransactionId |-> <<"sys", 3, 0>>,
        createdBy |-> "John Doe", createdAt |-> 4,
        approvedBy |-> "Jane Smith", approvedAt |-> 5,
        status |-> "rejected",
        comments |-> "Initial reconciliation attempt",
        rejectionReason |-> "Amount discrepancy found." ] >>

\* source === 'bank' ? 'Bank' : 'System'
SourceLabel(source) == IF source = "bank" THEN "Bank" ELSE "System"
\* source.toUpperCase()
SourceUpper(source) == IF source = "bank" THEN "BANK" ELSE "SYSTEM"
\* source.charAt(0).toUpperCase()
SourceInitial(source) == IF source = "bank" THEN "B" ELSE "S"

\* generateMockTransactions(source, count, fileId) of mockData.ts, fileId
\* being `file-${fileNo}`; the dates run from 2024-01-20, one day apart;
\* the random amount, type and account are fixed to one draw
seedMockTransactions(source, count, fileNo) ==
    [k \in 1..count |->
        [id |-> <<source \o "-file", fileNo, k>>,
         date |-> <<2024, 1, 20 + (k - 1)>>,
         amount |-> 10000 + k,
         description |-> <<SourceLabel(source) \o " Transaction ", k, " from file">>,
         type |-> "credit",
         reference |-> <<SourceUpper(source) \o "-REF-file", fileNo, k>>,
         status |-> "unreconciled", source |-> source,
         accountId |-> "ACC-001",
         transId |-> <<SourceInitial(source) \o "file", fileNo, k>>]]

mockFileUploads ==
    << [id |-> 1, fileName |-> "bank_transactions_jan_2024.xlsx",
        uploadedBy |-> "John Doe", uploadedAt |-> 1,
        status |-> "pending_approval",
        approvedBy |-> Undefined, approvedAt |-> 0, rejectionReason |-> Undefined,
        transactionCount |-> 8, source |-> "bank",
        transactions |-> seedMockTransactions("bank", 8, 1),
        organization |-> "Head Office", schedule |-> "Daily",
        remarks |-> "Regular daily bank statement upload for January 2024"],
       [id |-> 2, fileName |-> "system_transactions_jan_2024.xlsx",
        uploadedBy |-> "John Doe", uploadedAt |-> 2,
        status |-> "approved",
        approvedBy |-> "Jane Smith", approvedAt |-> 3, rejectionReason |-> Undefined,
        transactionCount |-> 6, source |-> "system",
        transactions |-> seedMockTransactions("system", 6, 2),
        organization |-> "Branch A", schedule |-> "Weekly",
        remarks |-> "Weekly system transaction export for reconciliation"],
       [id |-> 3, fileName |-> "bank_transactions_feb_2024.xlsx",
        uploadedBy |-> "John Doe", uploadedAt |-> 4,
        status |-> "rejected",
        approvedBy |-> "Jane Smith", approvedAt |-> 5,
        rejectionReason |-> "Invalid date format in rows 5-7.",
        transactionCount |-> 12, source |-> "bank",
        transactions |-> seedMockTransactions("bank", 12, 3),
        organization |-> "Regional Office North", schedule |-> "Monthly",
        remarks |-> "February month-end bank statement with corrections needed"] >>

----------------------------------------------------------------------------
(* Array helpers of the hook *)

\* prev.map(t => t.id === id ? { ...t, status } : t)
setStatus(txs, id, status) ==
    [i \in 1..Len(txs) |->
        IF txs[i].id = id THEN [txs[i] EXCEPT !.status = status] ELSE txs[i]]

\* Array.prototype.find: index of the first element with the id, 0 if none
findIndex(seq, id) ==
    IF \E i \in 1..Len(seq) : seq[i].id = id
    THEN CHOOSE i \in 1..Len(seq) :
            /\ seq[i].id = id
            /\ \A j \in 1..(i - 1) : seq[j].id # id
    ELSE 0

Init ==
    /\ bankTransactions = mockBankTransactions
    /\ systemTransactions = mockSystemTransactions
    /\ reconciliationEntries = mockReconciliationEntries
    /\ fileUploads = mockFileUploads
    /\ currentUser = mockUsers[1]
    /\ now = ClockStart
    /\ steps = 0
    /\ approvedInRun = {}
    /\ selectedBankTransaction = Null
    /\ selectedSystemTransaction = Null
    /\ selectedEntry = Null
    /\ selectedFile = Null
    /\ paginatedData = Null
    /\ searchParams = defaultSearchParams
    /\ debounceTimers = << >>
    /\ inFlight = << >>
    /\ isLoading = FALSE
    /\ searchedFiles = Null

----------------------------------------------------------------------------
(* Mutators of useReconciliation *)

\* createReconciliation with the update of the system ledger left out
createReconciliation_SkipsSystem(entry) ==
    LET newEntry == [id |-> now,
                     bankTransactionId |-> entry.bankTransactionId,
                     systemTransactionId |-> entry.systemTransactionId,
                     createdBy |-> entry.createdBy,
                     createdAt |-> now,
                     approvedBy |-> Undefined, approvedAt |-> 0,
                     status |-> entry.status,
                     comments |-> entry.comments,
                     rejectionReason |-> Undefined]
    IN  /\ reconciliationEntries' = Append(reconciliationEntries, newEntry)
        /\ bankTransactions' =
              setStatus(bankTransactions, entry.bankTransactionId, "pending")
        /\ UNCHANGED <<systemTransactions, fileUploads, currentUser>>

\* createReconciliation marking both transactions reconciled instead of pending
createReconciliation_MarksReconciled(entry) ==
    LET newEntry == [id |-> now,
                     bankTransactionId |-> entry.bankTransactionId,
                     systemTransactionId |-> entry.systemTransactionId,
                     createdBy |-> entry.createdBy,
                     createdAt |-> now,
                     approvedBy |-> Undefined, approvedAt |-> 0,
                     status |-> entry.status,
                     comments |-> entry.comments,
                     rejectionReason |-> Undefined]
    IN  /\ reconciliationEntries' = Append(reconciliationEntries, newEntry)
        /\ bankTransactions' =
              setStatus(bankTransactions, entry.bankTransactionId, "reconciled")
        /\ systemTransactions' =
              setStatus(systemTransactions, entry.systemTransactionId, "reconciled")
        /\ UNCHANGED <<fileUploads, currentUser>>

\* createReconciliation(entry): the new entry is the caller's fields plus
\* id and createdAt; both referenced transactions are set to pending
createReconciliation(entry) ==
    LET newEntry == [id |-> now,
                     bankTransactionId |-> entry.bankTransactionId,
                     systemTransactionId |-> entry.systemTransactionId,
                     createdBy |-> entry.createdBy,
                     createdAt |-> now,
                     approvedBy |-> Undefined, approvedAt |-> 0,
                     status |-> entry.status,
                     comments |-> entry.comments,
                     rejectionReason |-> Undefined]
    IN  /\ reconciliationEntries' = Append(reconciliationEntries, newEntry)
        /\ bankTransactions' =
              setStatus(bankTransactions, entry.bankTransactionId, "pending")
        /\ systemTransactions' =
              setStatus(systemTransactions, entry.systemTransactionId, "pending")
        /\ UNCHANGED <<fileUploads, currentUser>>

\* handleFormSubmit passing the system transaction's id for both references
handleFormSubmit_SystemIdTwice(bankTransaction, systemTransaction, comments) ==
    createReconciliation(
        [bankTransactionId |-> systemTransaction.id,
         systemTransactionId |-> systemTransaction.id,
         createdBy |-> "John Doe",
         status |-> "pending_approval",
         comments |-> IF comments = "" THEN Undefined ELSE comments])

\* ReconciliationForm.handleFormSubmit -> App.handleCreateReconciliation:
\* the only caller of createReconciliation
handleFormSubmit(bankTransaction, systemTransaction, comments) ==
    createReconciliation(
        [bankTransactionId |-> bankTransaction.id,
         systemTransactionId |-> systemTransaction.id,
         createdBy |-> "John Doe",
         status |-> "pending_approval",
         comments |-> IF comments = "" THEN Undefined ELSE comments])

\* the entry as approveReconciliation rewrites it
approvedEntry(entry, comments) ==
    [entry EXCEPT !.status = "approved",
                  !.approvedBy = currentUser.name,
                  !.approvedAt = now,
                  !.comments = IF comments \in {Undefined, ""}
                               THEN entry.comments ELSE comments]

\* approveReconciliation(entryId, comments)
approveReconciliation(entryId, comments) ==
    LET k == findIndex(reconciliationEntries, entryId)
        entry == reconciliationEntries[k]
    IN  /\ reconciliationEntries' =
              [i \in 1..Len(reconciliationEntries) |->
                  IF reconciliationEntries[i].id = entryId
                  THEN approvedEntry(reconciliationEntries[i], comments)
                  ELSE reconciliationEntries[i]]
        /\ IF k # 0
           THEN /\ bankTransactions' =
                      setStatus(bankTransactions, entry.bankTransactionId, "reconciled")
                /\ systemTransactions' =
                      setStatus(systemTransactions, entry.systemTransactionId, "reconciled")
           ELSE UNCHANGED <<bankTransactions, systemTransactions>>
        /\ UNCHANGED <<fileUploads, currentUser>>

\* the entry as rejectReconciliation rewrites it
rejectedEntry(entry, reason) ==
    [entry EXCEPT !.status = "rejected",
                  !.rejectionReason = reason,
                  !.approvedBy = currentUser.name,
                  !.approvedAt = now]

\* rejectReconciliation that reverts the system transaction only
rejectReconciliation_KeepsBank(entryId, reason) ==
    LET k == findIndex(reconciliationEntries, entryId)
        entry == reconciliationEntries[k]
    IN  /\ reconciliationEntries' =
              [i \in 1..Len(reconciliationEntries) |->
                  IF reconciliationEntries[i].id = entryId
                  THEN rejectedEntry(reconciliationEntries[i], reason)
                  ELSE reconciliationEntries[i]]
        /\ IF k # 0
           THEN /\ systemTransactions' =
                      setStatus(systemTransactions, entry.systemTransactionId, "unreconciled")
                /\ UNCHANGED bankTransactions
           ELSE UNCHANGED <<bankTransactions, systemTransactions>>
        /\ UNCHANGED <<fileUploads, currentUser>>

\* rejectReconciliation(entryId, reason)
rejectReconciliation(entryId, reason) ==
    LET k == findIndex(reconciliationEntries, entryId)
        entry == reconciliationEntries[k]
    IN  /\ reconciliationEntries' =
              [i \in 1..Len(reconciliationEntries) |->
                  IF reconciliationEntries[i].id = entryId
                  THEN rejectedEntry(reconciliationEntries[i], reason)
                  ELSE reconciliationEntries[i]]
        /\ IF k # 0
           THEN /\ bankTransactions' =
                      setStatus(bankTransactions, entry.bankTransactionId, "unreconciled")
                /\ systemTransactions' =
                      setStatus(systemTransactions, entry.systemTransactionId, "unreconciled")
           ELSE UNCHANGED <<bankTransactions, systemTransactions>>
        /\ UNCHANGED <<fileUploads, currentUser>>

\* Math.floor(Math.random() * 15) + 5: the counts 5..19, of which the model
\* draws the first two
MinUploadCount == 5
UploadCounts == {MinUploadCount, MinUploadCount + 1}

\* generateMockTransactions whose loop stops one record short of count
generateMockTransactions_StopsEarly(fileName, source, count) ==
    [k \in 1..(count - 1) |->
        [id |-> <<source \o "-upload", now, k - 1>>,
         date |-> <<"days before upload", 0>>,
         amount |-> 20000 + k,
         description |-> <<SourceLabel(source) \o " Transaction ", k, " from ", fileName>>,
         type |-> "debit",
         reference |-> <<SourceUpper(source) \o "-REF", now, k>>,
         status |-> "unreconciled", source |-> source,
         accountId |-> "ACC-001",
         transId |-> <<SourceInitial(source), now, k>>]]

\* generateMockTransactions(count) inside handleFileUpload; the loop index
\* i = k - 1 runs from 0; Date.now() is read once for the whole call; the
\* random date offset, amount, type and account are fixed to one draw
generateMockTransactions(fileName, source, count) ==
    [k \in 1..count |->
        [id |-> <<source \o "-upload", now, k - 1>>,
         date |-> <<"days before upload", 0>>,
         amount |-> 20000 + k,
         description |-> <<SourceLabel(source) \o " Transaction ", k, " from ", fileName>>,
         type |-> "debit",
         reference |-> <<SourceUpper(source) \o "-REF", now, k>>,
         status |-> "unreconciled", source |-> source,
         accountId |-> "ACC-001",
         transId |-> <<SourceInitial(source), now, k>>]]

\* handleFileUpload(file, source, organization, schedule, remarks), with the
\* transaction count drawn by Math.random passed in
handleFileUpload(fileName, source, organization, schedule, remarks, transactionCount) ==
    LET newFileUpload ==
            [id |-> now, fileName |-> fileName,
             uploadedBy |-> currentUser.name, uploadedAt |-> now,
             status |-> "pending_approval",
             approvedBy |-> Undefined, approvedAt |-> 0,
             rejectionReason |-> Undefined,
             transactionCount |-> transactionCount, source |-> source,
             transactions |-> generateMockTransactions(fileName, source, transactionCount),
             organization |-> organization, schedule |-> schedule,
             remarks |-> remarks]
    IN  /\ fileUploads' = Append(fileUploads, newFileUpload)
        /\ UNCHANGED <<bankTransactions, systemTransactions,
                       reconciliationEntries, currentUser>>

\* approveFile putting the file's transactions in front of the ledger
approveFile_Prepends(fileId) ==
    LET k == findIndex(fileUploads, fileId)
        file == fileUploads[k]
    IN  IF k = 0
        THEN UNCHANGED store
        ELSE /\ fileUploads' =
                   [i \in 1..Len(fileUploads) |->
                       IF fileUploads[i].id = fileId
                       THEN [fileUploads[i] EXCEPT !.status = "approved",
                                                   !.approvedBy = currentUser.name,
                                                   !.approvedAt = now]
                       ELSE fileUploads[i]]
             /\ IF file.source = "bank"
                THEN /\ bankTransactions' = file.transactions \o bankTransactions
                     /\ UNCHANGED systemTransactions
                ELSE /\ systemTransactions' = file.transactions \o systemTransactions
                     /\ UNCHANGED bankTransactions
             /\ UNCHANGED <<reconciliationEntries, currentUser>>

\* approveFile(fileId)
approveFile(fileId) ==
    LET k == findIndex(fileUploads, fileId)
        file == fileUploads[k]
    IN  IF k = 0
        THEN UNCHANGED store
        ELSE /\ fileUploads' =
                   [i \in 1..Len(fileUploads) |->
                       IF fileUploads[i].id = fileId
                       THEN [fileUploads[i] EXCEPT !.status = "approved",
                                                   !.approvedBy = currentUser.name,
                                                   !.approvedAt = now]
                       ELSE fileUploads[i]]
             /\ IF file.source = "bank"
                THEN /\ bankTransactions' = bankTransactions \o file.transactions
                     /\ UNCHANGED systemTransactions
                ELSE /\ systemTransactions' = systemTransactions \o file.transactions
                     /\ UNCHANGED bankTransactions
             /\ UNCHANGED <<reconciliationEntries, currentUser>>

\* rejectFile(fileId, reason)
rejectFile(fileId, reason) ==
    /\ fileUploads' =
          [i \in 1..Len(fileUploads) |->
              IF fileUploads[i].id = fileId
              THEN [fileUploads[i] EXCEPT !.status = "rejected",
                                          !.rejectionReason = reason,
                                          !.approvedBy = currentUser.name,
                                          !.approvedAt = now]
              ELSE fileUploads[i]]
    /\ UNCHANGED <<bankTransactions, systemTransactions,
                   reconciliationEntries, currentUser>>

\* addIndividualTransaction spreading the caller's fields over the status
addIndividualTransaction_KeepsStatus(transaction) ==
    LET newTransaction == [id |-> <<transaction.source, now, 0>>,
                           date |-> transaction.date,
                           amount |-> transaction.amount,
                           description |-> transaction.description,
                           type |-> transaction.type,
                           reference |-> transaction.reference,
                           status |-> IF transaction.status = Undefined
                                      THEN "unreconciled" ELSE transaction.status,
                           source |-> transaction.source,
                           accountId |-> transaction.accountId,
                           transId |-> transaction.transId]
    IN  /\ IF transaction.source = "bank"
           THEN /\ bankTransactions' = Append(bankTransactions, newTransaction)
                /\ UNCHANGED systemTransactions
           ELSE /\ systemTransactions' = Append(systemTransactions, newTransaction)
                /\ UNCHANGED bankTransactions
        /\ UNCHANGED <<reconciliationEntries, fileUploads, currentUser>>

\* addIndividualTransaction(transaction): id and status are overwritten
addIndividualTransaction(transaction) ==
    LET newTransaction == [id |-> <<transaction.source, now, 0>>,
                           date |-> transaction.date,
                           amount |-> transaction.amount,
                           description |-> transaction.description,
                           type |-> transaction.type,
                           reference |-> transaction.reference,
                           status |-> "unreconciled",
                           source |-> transaction.source,
                           accountId |-> transaction.accountId,
                           transId |-> transaction.transId]
    IN  /\ IF transaction.source = "bank"
           THEN /\ bankTransactions' = Append(bankTransactions, newTransaction)
                /\ UNCHANGED systemTransactions
           ELSE /\ systemTransactions' = Append(systemTransactions, newTransaction)
                /\ UNCHANGED bankTransactions
        /\ UNCHANGED <<reconciliationEntries, fileUploads, currentUser>>

\* changeUserRole(role): mockUsers.find(u => u.role === role)
changeUserRole(role) ==
    /\ IF \E i \in 1..Len(mockUsers) : mockUsers[i].role = role
       THEN currentUser' =
               mockUsers[CHOOSE i \in 1..Len(mockUsers) :
                            /\ mockUsers[i].role = role
                            /\ \A j \in 1..(i - 1) : mockUsers[j].role # role]
       ELSE UNCHANGED currentUser
    /\ UNCHANGED <<bankTransactions, systemTransactions,
                   reconciliationEntries, fileUploads>>

----------------------------------------------------------------------------
(* searchFileUploads(params): filter, sort, paginate.  The function reads   *)
(* the fileUploads of the render that created it; it is written here as a   *)
(* function of that list and of params.                                      *)

\* String.prototype.trim, for blanks
RECURSIVE trimStart(_)
trimStart(text) ==
    IF Len(text) > 0 /\ SubSeq(text, 1, 1) = " "
    THEN trimStart(SubSeq(text, 2, Len(text))) ELSE text

RECURSIVE trimEnd(_)
trimEnd(text) ==
    IF Len(text) > 0 /\ SubSeq(text, Len(text), Len(text)) = " "
    THEN trimEnd(SubSeq(text, 1, Len(text) - 1)) ELSE text

trim(text) == trimEnd(trimStart(text))

upperCaseLetters == "ABCDEFGHIJKLMNOPQRSTUVWXYZ"
lowerCaseLetters == "abcdefghijklmnopqrstuvwxyz"

\* the upper-case letters, and the lower-case form of each
upperCase == {SubSeq(upperCaseLetters, i, i) : i \in 1..Len(upperCaseLetters)}
lowerCaseOf ==
    [c \in upperCase |->
        LET i == CHOOSE j \in 1..Len(upperCaseLetters) :
                    SubSeq(upperCaseLetters, j, j) = c
        IN  SubSeq(lowerCaseLetters, i, i)]

\* the lower-case form of one character
lowerChar(c) == IF c \in upperCase THEN lowerCaseOf[c] ELSE c

\* String.prototype.toLowerCase
RECURSIVE toLowerCase(_)
toLowerCase(text) ==
    IF Len(text) = 0 THEN ""
    ELSE lowerChar(SubSeq(text, 1, 1)) \o toLowerCase(SubSeq(text, 2, Len(text)))

\* String.prototype.includes
includes(text, part) ==
    \E i \in 0..(Len(text) - Len(part)) : SubSeq(text, i + 1, i + Len(part)) = part

\* field?.toLowerCase().includes(lowered): false for a field that is absent
fieldIncludes(field, lowered) ==
    field # Undefined /\ includes(toLowerCase(field), lowered)

\* the organization filter
byOrganization(files, params) ==
    IF params.organization \notin {Undefined, ""} /\ params.organization # "all"
    THEN SelectSeq(files, LAMBDA file :
            fieldIncludes(file.organization, toLowerCase(params.organization)))
    ELSE files

\* the schedule filter without lower-casing the parameter
bySchedule_CaseSensitive(files, params) ==
    IF params.schedule \notin {Undefined, ""} /\ params.schedule # "all"
    THEN SelectSeq(files, LAMBDA file :
            fieldIncludes(file.schedule, params.schedule))
    ELSE files

\* the schedule filter
bySchedule(files, params) ==
    IF params.schedule \notin {Undefined, ""} /\ params.schedule # "all"
    THEN SelectSeq(files, LAMBDA file :
            fieldIncludes(file.schedule, toLowerCase(params.schedule)))
    ELSE files

\* the status filter
byStatus(files, params) ==
    IF params.status \notin {Undefined, ""} /\ params.status # "all"
    THEN SelectSeq(files, LAMBDA file : file.status = params.status)
    ELSE files

\* the searchTerm filter: the test trims the term, the match does not
bySearchTerm(files, params) ==
    IF params.searchTerm \notin {Undefined, ""} /\ trim(params.searchTerm) # ""
    THEN LET searchLower == toLowerCase(params.searchTerm)
         IN  SelectSeq(files, LAMBDA file :
                \/ includes(toLowerCase(file.fileName), searchLower)
                \/ includes(toLowerCase(file.uploadedBy), searchLower)
                \/ fieldIncludes(file.remarks, searchLower)
                \/ fieldIncludes(file.organization, searchLower)
                \/ fieldIncludes(file.schedule, searchLower))
    ELSE files

\* filteredFiles after the four filters
filteredFiles(files, params) ==
    bySearchTerm(byStatus(bySchedule(byOrganization(files, params), params), params),
                 params)

\* one step of the sort that puts the file before those of the same time
insertNewestFirst_BeforeEqual(sorted, file) ==
    LET k == Cardinality({i \in 1..Len(sorted) :
                             sorted[i].uploadedAt > file.uploadedAt})
    IN  SubSeq(sorted, 1, k) \o <<file>> \o SubSeq(sorted, k + 1, Len(sorted))

\* one step of the stable sort by (a, b) => time(b) - time(a): the file goes
\* behind every file that is as new or newer
insertNewestFirst(sorted, file) ==
    LET k == Cardinality({i \in 1..Len(sorted) :
                             sorted[i].uploadedAt >= file.uploadedAt})
    IN  SubSeq(sorted, 1, k) \o <<file>> \o SubSeq(sorted, k + 1, Len(sorted))

\* filteredFiles.sort(...): newest first, Array.prototype.sort is stable
RECURSIVE sortNewestFirst(_)
sortNewestFirst(files) ==
    IF Len(files) = 0 THEN << >>
    ELSE insertNewestFirst(sortNewestFirst(SubSeq(files, 1, Len(files) - 1)),
                           files[Len(files)])

\* Math.floor in the place of Math.ceil
ceilOfRatio_Floor(totalItems, pageSize) == totalItems \div pageSize

\* Math.ceil(totalItems / pageSize) for a positive pageSize
ceilOfRatio(totalItems, pageSize) == (totalItems + pageSize - 1) \div pageSize

\* slice that starts one item late
slice_StartsLate(files, startIndex, endIndex) ==
    IF startIndex + 1 >= Len(files) THEN << >>
    ELSE SubSeq(files, startIndex + 2,
                IF endIndex < Len(files) THEN endIndex ELSE Len(files))

\* Array.prototype.slice(startIndex, endIndex) for 0 <= startIndex <= endIndex
slice(files, startIndex, endIndex) ==
    IF startIndex >= Len(files) THEN << >>
    ELSE SubSeq(files, startIndex + 1,
                IF endIndex < Len(files) THEN endIndex ELSE Len(files))

\* searchFileUploads(params) reading the given fileUploads
searchFileUploads(files, params) ==
    LET sorted == sortNewestFirst(filteredFiles(files, params))
        totalItems == Len(sorted)
        totalPages == ceilOfRatio(totalItems, params.pageSize)
        startIndex == (params.page - 1) * params.pageSize
        endIndex == startIndex + params.pageSize
    IN  [data |-> slice(sorted, startIndex, endIndex),
         pagination |-> [currentPage |-> params.page,
                         pageSize |-> params.pageSize,
                         totalItems |-> totalItems,
                         totalPages |-> totalPages,
                         hasNextPage |-> params.page < totalPages,
                         hasPreviousPage |-> params.page > 1],
         filters |-> [organization |-> params.organization,
                      schedule |-> params.schedule,
                      status |-> params.status,
                      searchTerm |-> params.searchTerm]]

----------------------------------------------------------------------------
(* The store driven by its callers: every step is one call of a mutator    *)
(* with arguments drawn from the records that exist, or a clock tick.      *)

\* the transaction a caller of addIndividualTransaction passes; the type
\* leaves out id and status, an object that carries a status is accepted
\* at run time all the same
StatusInputs == {Undefined, "reconciled"}
IndividualInput(source, amount, status) ==
    [accountId |-> "ACC-004", date |-> <<2024, 2, 1>>,
     transId |-> <<"T004">>, amount |-> amount,
     description |-> <<"Manual entry">>, type |-> "credit",
     reference |-> <<"REF-004">>, source |-> source, status |-> status]

\* entry ids a caller may pass: those in the store and one that matches nothing
EntryIds == {reconciliationEntries[i].id : i \in 1..Len(reconciliationEntries)} \cup {0}
FileIds == {fileUploads[i].id : i \in 1..Len(fileUploads)} \cup {0}

\* positions of the entries with the id
EntriesWithId(entryId) ==
    {i \in 1..Len(reconciliationEntries) : reconciliationEntries[i].id = entryId}

\* positions of the transactions the reconcile form may be submitted for
Selectable(txs) == {i \in 1..Len(txs) : i <= MaxPick}

Create ==
    /\ steps < MaxSteps
    /\ \E b \in Selectable(bankTransactions), s \in Selectable(systemTransactions),
          c \in CommentInputs :
          handleFormSubmit(bankTransactions[b], systemTransactions[s], c)
    /\ steps' = steps + 1
    /\ UNCHANGED <<now, approvedInRun, screens>>

Approve ==
    /\ steps < MaxSteps
    /\ \E entryId \in EntryIds, c \in CommentInputs :
          /\ approveReconciliation(entryId, c)
          /\ approvedInRun' = approvedInRun \cup EntriesWithId(entryId)
    /\ steps' = steps + 1
    /\ UNCHANGED <<now, screens>>

Reject ==
    /\ steps < MaxSteps
    /\ \E entryId \in EntryIds, reason \in ReasonInputs :
          rejectReconciliation(entryId, reason)
    /\ steps' = steps + 1
    /\ UNCHANGED <<now, approvedInRun, screens>>

Upload ==
    /\ steps < MaxSteps
    /\ \E source \in {"bank", "system"}, n \in UploadCounts :
          handleFileUpload("upload.xlsx", source, "Branch B", "Daily", Undefined, n)
    /\ steps' = steps + 1
    /\ UNCHANGED <<now, approvedInRun, screens>>

ApproveFile ==
    /\ steps < MaxSteps
    /\ \E fileId \in FileIds : approveFile(fileId)
    /\ steps' = steps + 1
    /\ UNCHANGED <<now, approvedInRun, screens>>

RejectFile ==
    /\ steps < MaxSteps
    /\ \E fileId \in FileIds, reason \in ReasonInputs : rejectFile(fileId, reason)
    /\ steps' = steps + 1
    /\ UNCHANGED <<now, approvedInRun, screens>>

AddIndividual ==
    /\ steps < MaxSteps
    /\ \E source \in {"bank", "system"}, amount \in AmountInputs,
          status \in StatusInputs :
          addIndividualTransaction(IndividualInput(source, amount, status))
    /\ steps' = steps + 1
    /\ UNCHANGED <<now, approvedInRun, screens>>

ChangeRole ==
    /\ steps < MaxSteps
    /\ \E role \in UserRole : changeUserRole(role)
    /\ steps' = steps + 1
    /\ UNCHANGED <<now, approvedInRun, screens>>

\* a millisecond passes between two calls
Tick ==
    /\ steps < MaxSteps
    /\ now' = now + 1
    /\ steps' = steps + 1
    /\ UNCHANGED <<store, approvedInRun, screens>>

Next ==
    \/ Create
    \/ Approve
    \/ Reject
    \/ Upload
    \/ ApproveFile
    \/ RejectFile
    \/ AddIndividual
    \/ ChangeRole
    \/ Tick

Spec == Init /\ [][Next]_vars

----------------------------------------------------------------------------
(* The screens.  App mounts the reconcile, approval, file and individual    *)
(* entry screens at once and hands each the mutators and                    *)
(* currentUser.role; every event handler below runs against the store as    *)
(* the last render saw it.  The file screen lists paginatedData, the result *)
(* of its last search, which is the store's fileUploads as they were when   *)
(* the search was started.                                                  *)

\* the approval forms' submit button: disabled={!watchedStatus ||
\* (watchedStatus === 'reject' && !watchedRejectionReason?.trim())}
approvalSubmitDisabled(status, rejectionReason) ==
    status = "" \/ (status = "reject" /\ trim(rejectionReason) = "")

\* App.unreconciled: the transactions the reconcile tab lists
unreconciled(transactions) ==
    SelectSeq(transactions, LAMBDA t : t.status = "unreconciled")

\* ReconciliationForm: disabled={userRole !== 'maker' && userRole !== 'admin'}
submitDisabled(userRole) == userRole # "maker" /\ userRole # "admin"

\* FileUploadManager.canUpload
canUpload(userRole) == userRole = "maker" \/ userRole = "admin"

\* IndividualTransactionForm.canAdd
canAdd(userRole) == userRole = "maker" \/ userRole = "admin"

\* canApprove letting every role approve
canApprove_AnyRole(userRole) == userRole \in UserRole

\* ApprovalQueue.canApprove
canApprove(userRole) == userRole = "checker" \/ userRole = "admin"

\* FileUploadManager.canApprove
canApproveFile(userRole) == userRole = "checker" \/ userRole = "admin"

\* TransactionList click in the bank column: setSelectedBankTransaction
SelectBankTransaction ==
    /\ steps < MaxEvents
    /\ \E i \in Selectable(unreconciled(bankTransactions)) :
          selectedBankTransaction' = <<unreconciled(bankTransactions)[i]>>
    /\ steps' = steps + 1
    /\ UNCHANGED <<store, now, approvedInRun, selectedSystemTransaction,
                   selectedEntry, selectedFile, paginatedData, searching>>

\* TransactionList click in the system column: setSelectedSystemTransaction
SelectSystemTransaction ==
    /\ steps < MaxEvents
    /\ \E i \in Selectable(unreconciled(systemTransactions)) :
          selectedSystemTransaction' = <<unreconciled(systemTransactions)[i]>>
    /\ steps' = steps + 1
    /\ UNCHANGED <<store, now, approvedInRun, selectedBankTransaction,
                   selectedEntry, selectedFile, paginatedData, searching>>

\* ReconciliationForm submit -> App.handleCreateReconciliation: the form is
\* shown when both transactions are selected, its button is enabled for
\* maker and admin, and the selection is cleared after the call
SubmitReconciliation ==
    /\ steps < MaxEvents
    /\ selectedBankTransaction # Null
    /\ selectedSystemTransaction # Null
    /\ ~submitDisabled(currentUser.role)
    /\ \E c \in CommentInputs :
          handleFormSubmit(selectedBankTransaction[1], selectedSystemTransaction[1], c)
    /\ selectedBankTransaction' = Null
    /\ selectedSystemTransaction' = Null
    /\ steps' = steps + 1
    /\ UNCHANGED <<now, approvedInRun, selectedEntry, selectedFile, paginatedData, searching>>

\* ApprovalQueue 'View Details' / 'Hide Details' of a listed entry
SelectEntry ==
    /\ steps < MaxEvents
    /\ \E i \in 1..Len(reconciliationEntries) :
          selectedEntry' = IF selectedEntry = <<reconciliationEntries[i].id>>
                           THEN Null ELSE <<reconciliationEntries[i].id>>
    /\ steps' = steps + 1
    /\ UNCHANGED <<store, now, approvedInRun, selectedBankTransaction,
                   selectedSystemTransaction, selectedFile, paginatedData, searching>>

\* ApprovalQueue.handleFormSubmit: the form is rendered in the details of the
\* selected entry when it is pending approval and canApprove; the decision is
\* 'approve', or 'reject' with a reason that is not blank
SubmitApproval ==
    /\ steps < MaxEvents
    /\ selectedEntry # Null
    /\ canApprove(currentUser.role)
    /\ \E i \in 1..Len(reconciliationEntries) :
          /\ reconciliationEntries[i].id = selectedEntry[1]
          /\ reconciliationEntries[i].status = "pending_approval"
    /\ \/ /\ ~approvalSubmitDisabled("approve", "")
          /\ \E c \in CommentInputs : approveReconciliation(selectedEntry[1], c)
          /\ approvedInRun' = approvedInRun \cup EntriesWithId(selectedEntry[1])
       \/ /\ \E reason \in ReasonInputs :
                /\ ~approvalSubmitDisabled("reject", reason)
                /\ IF trim(reason) # ""
                   THEN rejectReconciliation(selectedEntry[1], reason)
                   ELSE UNCHANGED store
          /\ UNCHANGED approvedInRun
    /\ selectedEntry' = Null
    /\ steps' = steps + 1
    /\ UNCHANGED <<now, selectedBankTransaction, selectedSystemTransaction,
                   selectedFile, paginatedData, searching>>

\* FileUploadManager.handleFileUpload (drop or file input): the upload card
\* is rendered when canUpload; organization and schedule are chosen and the
\* file is an Excel file
UploadFile ==
    /\ steps < MaxEvents
    /\ canUpload(currentUser.role)
    /\ \E source \in {"bank", "system"}, n \in UploadCounts :
          handleFileUpload("upload.xlsx", source, "Branch B", "Daily", Undefined, n)
    /\ steps' = steps + 1
    /\ UNCHANGED <<now, approvedInRun, screens>>

\* the files the file screen lists: paginatedData?.data
listedFiles == IF paginatedData = Null THEN << >> ELSE paginatedData[1].data

\* FileUploadManager.performSearch seen as one step: a search of the
\* fileUploads of this moment is made and its result is shown
SearchFiles ==
    /\ steps < MaxEvents
    /\ paginatedData' = <<searchFileUploads(fileUploads, searchParams)>>
    /\ steps' = steps + 1
    /\ UNCHANGED <<store, now, approvedInRun, selectedBankTransaction,
                   selectedSystemTransaction, selectedEntry, selectedFile,
                   searching>>

\* FileUploadManager 'Details' / 'Hide Details' of a listed file
SelectFile ==
    /\ steps < MaxEvents
    /\ ~isLoading
    /\ \E i \in 1..Len(listedFiles) :
          selectedFile' = IF selectedFile = <<listedFiles[i].id>>
                          THEN Null ELSE <<listedFiles[i].id>>
    /\ steps' = steps + 1
    /\ UNCHANGED <<store, now, approvedInRun, selectedBankTransaction,
                   selectedSystemTransaction, selectedEntry, paginatedData, searching>>

\* FileUploadManager.handleApprovalSubmit: the form is rendered in the
\* details of the selected file when the list shows it pending approval and
\* canApprove
SubmitFileApproval ==
    /\ steps < MaxEvents
    /\ ~isLoading
    /\ selectedFile # Null
    /\ canApproveFile(currentUser.role)
    /\ \E i \in 1..Len(listedFiles) :
          /\ listedFiles[i].id = selectedFile[1]
          /\ listedFiles[i].status = "pending_approval"
    /\ \/ /\ ~approvalSubmitDisabled("approve", "")
          /\ approveFile(selectedFile[1])
       \/ \E reason \in ReasonInputs :
             /\ ~approvalSubmitDisabled("reject", reason)
             /\ IF trim(reason) # ""
                THEN rejectFile(selectedFile[1], reason)
                ELSE UNCHANGED store
    /\ selectedFile' = Null
    /\ steps' = steps + 1
    /\ UNCHANGED <<now, approvedInRun, selectedBankTransaction,
                   selectedSystemTransaction, selectedEntry, paginatedData, searching>>

\* IndividualTransactionForm.handleSubmit: the form is rendered when canAdd
\* and every required field is filled
AddTransaction ==
    /\ steps < MaxEvents
    /\ canAdd(currentUser.role)
    /\ \E source \in {"bank", "system"}, amount \in AmountInputs :
          addIndividualTransaction(IndividualInput(source, amount, Undefined))
    /\ steps' = steps + 1
    /\ UNCHANGED <<now, approvedInRun, screens>>

\* Header role select: onRoleChange
SwitchRole ==
    /\ steps < MaxEvents
    /\ \E role \in UserRole : changeUserRole(role)
    /\ steps' = steps + 1
    /\ UNCHANGED <<now, approvedInRun, screens>>

\* a millisecond passes between two events
Elapse ==
    /\ steps < MaxEvents
    /\ now' = now + 1
    /\ steps' = steps + 1
    /\ UNCHANGED <<store, approvedInRun, screens>>

NextUI ==
    \/ SelectBankTransaction
    \/ SelectSystemTransaction
    \/ SubmitReconciliation
    \/ SelectEntry
    \/ SubmitApproval
    \/ UploadFile
    \/ SearchFiles
    \/ SelectFile
    \/ SubmitFileApproval
    \/ AddTransaction
    \/ SwitchRole
    \/ Elapse

SpecUI == Init /\ [][NextUI]_vars

----------------------------------------------------------------------------
(* searchFileUploads applied: the parameters are drawn at the start, the    *)
(* store grows by uploads, and a search reads the store of the moment.      *)

\* the parameters a search is made with; an absent filter is Undefined
SearchInputs ==
    {params \in [page : 1..MaxPage, pageSize : 1..MaxPageSize,
                 organization : {Undefined, "all", "branch"},
                 schedule : {"all", "DAILY"},
                 status : {"all", "pending_approval"},
                 searchTerm : {"", " ", "HEAD"}] :
        \/ params.page = 1 /\ params.pageSize = MaxPageSize
        \/ /\ params.organization = Undefined
           /\ params.schedule = "all"
           /\ params.searchTerm = ""}

InitSearch ==
    /\ bankTransactions = mockBankTransactions
    /\ systemTransactions = mockSystemTransactions
    /\ reconciliationEntries = mockReconciliationEntries
    /\ fileUploads = mockFileUploads
    /\ currentUser = mockUsers[1]
    /\ now = ClockStart
    /\ steps = 0
    /\ approvedInRun = {}
    /\ selectedBankTransaction = Null
    /\ selectedSystemTransaction = Null
    /\ selectedEntry = Null
    /\ selectedFile = Null
    /\ paginatedData = Null
    /\ searchParams \in SearchInputs
    /\ debounceTimers = << >>
    /\ inFlight = << >>
    /\ isLoading = FALSE
    /\ searchedFiles = Null

\* handleFileUpload by a branch with remarks or by the head office without
UploadForSearch ==
    /\ steps < MaxSearchSteps
    /\ \E form \in {<<"Branch B", "Resent by head office">>,
                     <<"Head Office", Undefined>>} :
          handleFileUpload("upload.xlsx", "bank", form[1], "Daily", form[2],
                           MinUploadCount)
    /\ steps' = steps + 1
    /\ UNCHANGED <<now, approvedInRun, screens>>

\* a millisecond passes between two uploads
WaitForSearch ==
    /\ steps < MaxSearchSteps
    /\ now' = now + 1
    /\ steps' = steps + 1
    /\ UNCHANGED <<store, approvedInRun, screens>>

\* a search whose result replaces the store's list by the sorted one
RunSearch_SortsInPlace ==
    /\ paginatedData' = <<searchFileUploads(fileUploads, searchParams)>>
    /\ searchedFiles' = <<fileUploads>>
    /\ fileUploads' = sortNewestFirst(fileUploads)
    /\ UNCHANGED <<bankTransactions, systemTransactions, reconciliationEntries,
                   currentUser, now, steps, approvedInRun, selectedBankTransaction,
                   selectedSystemTransaction, selectedEntry, selectedFile,
                   searchParams, debounceTimers, inFlight, isLoading>>

\* searchFileUploads(searchParams) is called and its result kept
RunSearch ==
    /\ paginatedData' = <<searchFileUploads(fileUploads, searchParams)>>
    /\ searchedFiles' = <<fileUploads>>
    /\ UNCHANGED <<store, now, steps, approvedInRun, selectedBankTransaction,
                   selectedSystemTransaction, selectedEntry, selectedFile,
                   searchParams, debounceTimers, inFlight, isLoading>>

NextSearch ==
    \/ UploadForSearch
    \/ WaitForSearch
    \/ RunSearch

SpecSearch == InitSearch /\ [][NextSearch]_vars

----------------------------------------------------------------------------
(* Vocabulary of the properties *)

\* some transaction of the ledger has the id, and every one that has it
\* is in the status
HasStatus(txs, id, status) ==
    /\ \E i \in 1..Len(txs) : txs[i].id = id
    /\ \A i \in 1..Len(txs) : txs[i].id = id => txs[i].status = status

\* every transaction of the ledger with the id is in the status
AllInStatus(txs, id, status) ==
    \A i \in 1..Len(txs) : txs[i].id = id => txs[i].status = status

\* the step is a call of createReconciliation through the reconcile form
IsCreateStep ==
    \E b \in Selectable(bankTransactions), s \in Selectable(systemTransactions),
       c \in CommentInputs :
       handleFormSubmit(bankTransactions[b], systemTransactions[s], c)

\* the step is a call of approveReconciliation
IsApproveStep ==
    \E entryId \in EntryIds, c \in CommentInputs : approveReconciliation(entryId, c)

Terminal == {"approved", "rejected"}

----------------------------------------------------------------------------
(* Reconciliation entries and transaction statuses *)

\* C1: a step that creates a reconciliation entry for existing transactions
\* appends exactly one entry, in status pending_approval, and the same step
\* leaves the referenced bank and system transactions pending; no step adds
\* an entry in any other way.
C1_CreateIsAtomic ==
    [][ (IsCreateStep \/ Len(reconciliationEntries') # Len(reconciliationEntries)) =>
          /\ Len(reconciliationEntries') = Len(reconciliationEntries) + 1
          /\ SubSeq(reconciliationEntries', 1, Len(reconciliationEntries))
                = reconciliationEntries
          /\ LET e == reconciliationEntries'[Len(reconciliationEntries')]
             IN  /\ e.status = "pending_approval"
                 /\ HasStatus(bankTransactions', e.bankTransactionId, "pending")
                 /\ HasStatus(systemTransactions', e.systemTransactionId, "pending")
      ]_vars

\* an entry created in the run is pending approval with both transactions pending
C1_Witness ==
    /\ Len(reconciliationEntries) > Len(mockReconciliationEntries)
    /\ LET e == reconciliationEntries[Len(reconciliationEntries)]
       IN  /\ e.status = "pending_approval"
           /\ HasStatus(bankTransactions, e.bankTransactionId, "pending")
           /\ HasStatus(systemTransactions, e.systemTransactionId, "pending")

\* C2: approveReconciliation(entryId) leaves every entry that had the id and
\* was pending approval in status approved, stamped with the name of the
\* user current at the call, with both of its transactions reconciled.
C2_ApprovePost ==
    [][ \A entryId \in EntryIds, c \in CommentInputs :
          approveReconciliation(entryId, c) =>
             \A i \in 1..Len(reconciliationEntries) :
                (/\ reconciliationEntries[i].id = entryId
                 /\ reconciliationEntries[i].status = "pending_approval") =>
                   /\ reconciliationEntries'[i].status = "approved"
                   /\ reconciliationEntries'[i].approvedBy = currentUser.name
                   /\ AllInStatus(bankTransactions',
                         reconciliationEntries[i].bankTransactionId, "reconciled")
                   /\ AllInStatus(systemTransactions',
                         reconciliationEntries[i].systemTransactionId, "reconciled")
      ]_vars

\* C3: rejectReconciliation(entryId, reason) leaves every entry that had the
\* id and was pending approval in status rejected, with the given reason,
\* stamped with the current user's name, and both of its transactions
\* unreconciled.
C3_RejectPost ==
    [][ \A entryId \in EntryIds, reason \in ReasonInputs :
          rejectReconciliation(entryId, reason) =>
             \A i \in 1..Len(reconciliationEntries) :
                (/\ reconciliationEntries[i].id = entryId
                 /\ reconciliationEntries[i].status = "pending_approval") =>
                   /\ reconciliationEntries'[i].status = "rejected"
                   /\ reconciliationEntries'[i].rejectionReason = reason
                   /\ reconciliationEntries'[i].approvedBy = currentUser.name
                   /\ AllInStatus(bankTransactions',
                         reconciliationEntries[i].bankTransactionId, "unreconciled")
                   /\ AllInStatus(systemTransactions',
                         reconciliationEntries[i].systemTransactionId, "unreconciled")
      ]_vars

\* C4: every approved entry has both of its transactions reconciled.
C4_ApprovedImpliesReconciled ==
    \A i \in 1..Len(reconciliationEntries) :
        reconciliationEntries[i].status = "approved" =>
           /\ AllInStatus(bankTransactions,
                 reconciliationEntries[i].bankTransactionId, "reconciled")
           /\ AllInStatus(systemTransactions,
                 reconciliationEntries[i].systemTransactionId, "reconciled")

BecomesReconciled(txs, txsNext) ==
    \E i \in 1..Len(txsNext) :
        /\ txsNext[i].status = "reconciled"
        /\ i <= Len(txs) => txs[i].status # "reconciled"

\* the ledger transaction is referenced by an entry approveReconciliation
\* was applied to
ApprovedFor(t) ==
    \E i \in approvedInRun :
        \/ t.source = "bank" /\ reconciliationEntries[i].bankTransactionId = t.id
        \/ t.source = "system" /\ reconciliationEntries[i].systemTransactionId = t.id

\* C6: every reconciled transaction is referenced by an entry that
\* approveReconciliation was applied to earlier in the run, and only a step
\* of approveReconciliation makes a transaction reconciled.
C6_ReconciledOnlyByApproval ==
    /\ [](/\ \A i \in 1..Len(bankTransactions) :
               bankTransactions[i].status = "reconciled" => ApprovedFor(bankTransactions[i])
          /\ \A i \in 1..Len(systemTransactions) :
               systemTransactions[i].status = "reconciled" => ApprovedFor(systemTransactions[i]))
    /\ [][ (\/ BecomesReconciled(bankTransactions, bankTransactions')
            \/ BecomesReconciled(systemTransactions, systemTransactions'))
              => IsApproveStep ]_vars

\* an approval has reconciled a bank and a system transaction
C6_Witness ==
    /\ approvedInRun # {}
    /\ \E i \in 1..Len(bankTransactions) : bankTransactions[i].status = "reconciled"
    /\ \E i \in 1..Len(systemTransactions) : systemTransactions[i].status = "reconciled"

\* C7: once an entry is approved or rejected, no step changes its status,
\* its approvedBy or its rejectionReason.
C7_EntryTerminal ==
    [][ \A i \in 1..Len(reconciliationEntries) :
          reconciliationEntries[i].status \in Terminal =>
             /\ reconciliationEntries'[i].status = reconciliationEntries[i].status
             /\ reconciliationEntries'[i].approvedBy = reconciliationEntries[i].approvedBy
             /\ reconciliationEntries'[i].rejectionReason
                   = reconciliationEntries[i].rejectionReason
      ]_vars

\* C8: once a file upload is approved or rejected, no step changes its
\* status, its approvedBy or its rejectionReason, and approveFile called for
\* a file that is not pending approval changes nothing.
C8_FileTerminal ==
    [][ /\ \A i \in 1..Len(fileUploads) :
             fileUploads[i].status \in Terminal =>
                /\ fileUploads'[i].status = fileUploads[i].status
                /\ fileUploads'[i].approvedBy = fileUploads[i].approvedBy
                /\ fileUploads'[i].rejectionReason = fileUploads[i].rejectionReason
        /\ \A fileId \in FileIds :
             (/\ approveFile(fileId)
              /\ \A i \in 1..Len(fileUploads) :
                    fileUploads[i].id = fileId =>
                       fileUploads[i].status # "pending_approval")
                => UNCHANGED store
      ]_vars

\* the status edges of a transaction: unreconciled -> pending,
\* pending -> reconciled, pending -> unreconciled
StatusEdges ==
    { <<"unreconciled", "pending">>, <<"pending", "reconciled">>,
      <<"pending", "unreconciled">> }

\* the ledger changes statuses only along StatusEdges
OnlyStatusEdges(txs, txsNext) ==
    \A i \in 1..Len(txs) :
        \/ txsNext[i].status = txs[i].status
        \/ <<txs[i].status, txsNext[i].status>> \in StatusEdges

\* C9: in every step the status of each transaction either stays or moves
\* unreconciled -> pending in a createReconciliation step, pending ->
\* reconciled in an approveReconciliation step, or pending -> unreconciled.
C9_TransactionLifecycle ==
    [][ /\ OnlyStatusEdges(bankTransactions, bankTransactions')
        /\ OnlyStatusEdges(systemTransactions, systemTransactions') ]_vars

\* C10: no two entries that are pending approval reference the same bank
\* transaction or the same system transaction.
C10_OnePendingEntryPerTransaction ==
    \A i, j \in 1..Len(reconciliationEntries) :
        (/\ i # j
         /\ reconciliationEntries[i].status = "pending_approval"
         /\ reconciliationEntries[j].status = "pending_approval") =>
           /\ reconciliationEntries[i].bankTransactionId
                 # reconciliationEntries[j].bankTransactionId
           /\ reconciliationEntries[i].systemTransactionId
                 # reconciliationEntries[j].systemTransactionId

----------------------------------------------------------------------------
(* File uploads and the ledgers *)

\* the ledger the source selects
Ledger(source) == IF source = "bank" THEN bankTransactions ELSE systemTransactions

\* ids of the transactions of a sequence
Ids(txs) == {txs[i].id : i \in 1..Len(txs)}

\* C11: an approveFile step for a file that is pending approval appends
\* exactly that file's transactions, in their order and still unreconciled,
\* to the end of the ledger of the file's source; the other ledger, the
\* entries, every other file upload and the current user are unchanged, and
\* so is the file's own list of transactions.
C11_ApproveFileFrame ==
    [][ \A k \in 1..Len(fileUploads) :
          (/\ fileUploads[k].status = "pending_approval"
           /\ approveFile(fileUploads[k].id)) =>
             LET file == fileUploads[k]
             IN  /\ \A i \in 1..Len(file.transactions) :
                        file.transactions[i].status = "unreconciled"
                 /\ IF file.source = "bank"
                    THEN /\ bankTransactions' = bankTransactions \o file.transactions
                         /\ systemTransactions' = systemTransactions
                    ELSE /\ systemTransactions' = systemTransactions \o file.transactions
                         /\ bankTransactions' = bankTransactions
                 /\ reconciliationEntries' = reconciliationEntries
                 /\ currentUser' = currentUser
                 /\ Len(fileUploads') = Len(fileUploads)
                 /\ \A j \in 1..Len(fileUploads) :
                        j # k => fileUploads'[j] = fileUploads[j]
                 /\ fileUploads'[k].status = "approved"
                 /\ fileUploads'[k].transactions = file.transactions
      ]_vars

\* C12: every approved file upload has all its transactions, by id, in the
\* ledger of its source.
C12_ApprovedFileInLedger ==
    \A k \in 1..Len(fileUploads) :
        fileUploads[k].status = "approved" =>
           Ids(fileUploads[k].transactions) \subseteq Ids(Ledger(fileUploads[k].source))

\* C13: no transaction of a rejected file upload is in the bank or the system
\* ledger, and a rejectFile step changes neither ledger.
C13_RejectedFileNotInLedger ==
    /\ [](\A k \in 1..Len(fileUploads) :
            fileUploads[k].status = "rejected" =>
               Ids(fileUploads[k].transactions)
                  \cap (Ids(bankTransactions) \cup Ids(systemTransactions)) = {})
    /\ [][ (\E fileId \in FileIds, reason \in ReasonInputs : rejectFile(fileId, reason)) =>
             UNCHANGED <<bankTransactions, systemTransactions>> ]_vars

\* C14: every file upload, seeded or uploaded, pending, approved or rejected,
\* has transactionCount equal to the length of its list of transactions.
C14_CountIsLength ==
    \A k \in 1..Len(fileUploads) :
        fileUploads[k].transactionCount = Len(fileUploads[k].transactions)

\* a file uploaded in the run has been approved or rejected and its count is
\* still the length of its list
C14_Witness ==
    \E k \in (Len(mockFileUploads) + 1)..Len(fileUploads) :
        /\ fileUploads[k].status \in Terminal
        /\ fileUploads[k].transactionCount = Len(fileUploads[k].transactions)
        /\ fileUploads[k].transactionCount >= MinUploadCount

\* the transaction but for its status
Identity(t) == [t EXCEPT !.status = "any"]

\* every transaction of the ledger is still there, at its position, with
\* every field but the status as before
OnlyStatusChanges(txs, txsNext) ==
    /\ Len(txsNext) >= Len(txs)
    /\ \A i \in 1..Len(txs) : Identity(txsNext[i]) = Identity(txs[i])

\* C15: no step removes or moves a transaction of a ledger or changes any of
\* its id, date, amount, description, type, reference, source, accountId and
\* transId; only the status may change.
C15_TransactionsKept ==
    [][ /\ OnlyStatusChanges(bankTransactions, bankTransactions')
        /\ OnlyStatusChanges(systemTransactions, systemTransactions') ]_vars

\* a ledger has grown and one of the seeded transactions has left the
\* status unreconciled
C15_Witness ==
    /\ Len(bankTransactions) > Len(mockBankTransactions)
    /\ \E i \in 1..Len(mockBankTransactions) :
          /\ bankTransactions[i].status # "unreconciled"
          /\ Identity(bankTransactions[i]) = Identity(mockBankTransactions[i])

----------------------------------------------------------------------------
(* References, identifiers and atomicity *)

\* C16: with entries created only by submitting the reconcile form for the
\* bank and the system transaction selected in App, every entry's
\* bankTransactionId is the id of a transaction of the bank ledger and its
\* systemTransactionId the id of a transaction of the system ledger.
C16_NoDanglingReferences ==
    \A i \in 1..Len(reconciliationEntries) :
        /\ reconciliationEntries[i].bankTransactionId \in Ids(bankTransactions)
        /\ reconciliationEntries[i].systemTransactionId \in Ids(systemTransactions)

\* the reconcile form has been submitted: the new entry references a
\* transaction of each ledger and the selection is cleared
C16_Witness ==
    /\ Len(reconciliationEntries) > Len(mockReconciliationEntries)
    /\ LET e == reconciliationEntries[Len(reconciliationEntries)]
       IN  /\ e.bankTransactionId \in Ids(bankTransactions)
           /\ e.systemTransactionId \in Ids(systemTransactions)
    /\ selectedBankTransaction = Null
    /\ selectedSystemTransaction = Null

\* no two records of the sequence have the same id
UniqueIds(records) ==
    \A i, j \in 1..Len(records) : i # j => records[i].id # records[j].id

\* C17: ids are unique within the entries, within the file uploads, within
\* the bank ledger and within the system ledger.
C17_UniqueIds ==
    /\ UniqueIds(reconciliationEntries)
    /\ UniqueIds(fileUploads)
    /\ UniqueIds(bankTransactions)
    /\ UniqueIds(systemTransactions)

\* the ledger of the source after the step
LedgerNext(source) ==
    IF source = "bank" THEN bankTransactions' ELSE systemTransactions'

\* the sequence ends with the given one
EndsWith(seq, tail) ==
    /\ Len(seq) >= Len(tail)
    /\ SubSeq(seq, Len(seq) - Len(tail) + 1, Len(seq)) = tail

\* C18: an approveReconciliation or rejectReconciliation step either changes
\* nothing or updates every entry with the id together with both
\* transactions the entry references; an approveFile step either changes
\* nothing or marks every file with the id approved and appends its
\* transactions to the ledger of its source; a call of approveReconciliation,
\* rejectReconciliation, approveFile or rejectFile with an id that matches
\* no record changes no collection and not the current user.
C18_AllOrNothing ==
    [][ /\ \A entryId \in EntryIds, c \in CommentInputs :
             approveReconciliation(entryId, c) =>
                \/ UNCHANGED store
                \/ \A i \in EntriesWithId(entryId) :
                      /\ reconciliationEntries'[i].status = "approved"
                      /\ HasStatus(bankTransactions',
                                   reconciliationEntries[i].bankTransactionId, "reconciled")
                      /\ HasStatus(systemTransactions',
                                   reconciliationEntries[i].systemTransactionId, "reconciled")
        /\ \A entryId \in EntryIds, reason \in ReasonInputs :
             rejectReconciliation(entryId, reason) =>
                \/ UNCHANGED store
                \/ \A i \in EntriesWithId(entryId) :
                      /\ reconciliationEntries'[i].status = "rejected"
                      /\ HasStatus(bankTransactions',
                                   reconciliationEntries[i].bankTransactionId, "unreconciled")
                      /\ HasStatus(systemTransactions',
                                   reconciliationEntries[i].systemTransactionId, "unreconciled")
        /\ \A fileId \in FileIds :
             approveFile(fileId) =>
                \/ UNCHANGED store
                \/ \A i \in 1..Len(fileUploads) :
                      fileUploads[i].id = fileId =>
                         /\ fileUploads'[i].status = "approved"
                         /\ EndsWith(LedgerNext(fileUploads[i].source),
                                     fileUploads[i].transactions)
        /\ (\/ \E c \in CommentInputs : approveReconciliation(0, c)
            \/ \E reason \in ReasonInputs : rejectReconciliation(0, reason)
            \/ approveFile(0)
            \/ \E reason \in ReasonInputs : rejectFile(0, reason))
              => UNCHANGED store
      ]_vars

----------------------------------------------------------------------------
(* Roles and audit stamps *)

\* the step is a call of createReconciliation, of handleFileUpload, of
\* addIndividualTransaction: the only steps that add an entry, add a file,
\* add one transaction to a ledger
IsMakerCall ==
    \/ Len(reconciliationEntries') = Len(reconciliationEntries) + 1
    \/ Len(fileUploads') = Len(fileUploads) + 1
    \/ Len(bankTransactions') = Len(bankTransactions) + 1
    \/ Len(systemTransactions') = Len(systemTransactions) + 1

\* the step is a call of approveReconciliation, rejectReconciliation,
\* approveFile or rejectFile for a record of the store
IsCheckerCall ==
    \/ \E entryId \in EntryIds \ {0}, c \in CommentInputs :
          approveReconciliation(entryId, c)
    \/ \E entryId \in EntryIds \ {0}, reason \in ReasonInputs :
          rejectReconciliation(entryId, reason)
    \/ \E fileId \in FileIds \ {0} : approveFile(fileId)
    \/ \E fileId \in FileIds \ {0}, reason \in ReasonInputs : rejectFile(fileId, reason)

\* names of the users of a role among the given ones
NamesOf(roles) == {mockUsers[i].name : i \in {j \in 1..Len(mockUsers) : mockUsers[j].role \in roles}}

\* C19: on the screens, createReconciliation, handleFileUpload and
\* addIndividualTransaction are called only while the current user's role is
\* maker or admin, the approvals and rejections of entries and files only
\* while it is checker or admin, and every approvedBy a step writes is the
\* name of the checker or of the admin.
C19_RoleGating ==
    [][ /\ IsMakerCall => currentUser.role \in {"maker", "admin"}
        /\ IsCheckerCall => currentUser.role \in {"checker", "admin"}
        /\ \A i \in 1..Len(reconciliationEntries) :
              reconciliationEntries'[i] # reconciliationEntries[i] =>
                 reconciliationEntries'[i].approvedBy \in NamesOf({"checker", "admin"})
        /\ \A i \in 1..Len(fileUploads) :
              fileUploads'[i] # fileUploads[i] =>
                 fileUploads'[i].approvedBy \in NamesOf({"checker", "admin"})
      ]_vars

\* an entry has been approved on the approval screen in this run, by the
\* checker or the admin
C19_Witness ==
    \E i \in approvedInRun :
        /\ reconciliationEntries[i].status = "approved"
        /\ reconciliationEntries[i].approvedAt >= ClockStart
        /\ reconciliationEntries[i].approvedBy \in NamesOf({"checker", "admin"})
        /\ currentUser.role \in {"checker", "admin"}

\* C20: every entry a step creates has createdBy equal to the current user's
\* name, every file a step uploads has uploadedBy equal to it, every
\* approval or rejection writes it to approvedBy, and a step that switches
\* the user changes no entry and no file.
C20_StampsNameTheActor ==
    [][ /\ Len(reconciliationEntries') > Len(reconciliationEntries) =>
              reconciliationEntries'[Len(reconciliationEntries')].createdBy
                 = currentUser.name
        /\ Len(fileUploads') > Len(fileUploads) =>
              fileUploads'[Len(fileUploads')].uploadedBy = currentUser.name
        /\ \A i \in 1..Len(reconciliationEntries) :
              reconciliationEntries'[i] # reconciliationEntries[i] =>
                 reconciliationEntries'[i].approvedBy = currentUser.name
        /\ \A i \in 1..Len(fileUploads) :
              fileUploads'[i] # fileUploads[i] =>
                 fileUploads'[i].approvedBy = currentUser.name
        /\ currentUser' # currentUser =>
              /\ reconciliationEntries' = reconciliationEntries
              /\ fileUploads' = fileUploads
      ]_vars

----------------------------------------------------------------------------
(* Rejection reasons and manual entry *)

\* C21: every entry and every file upload a step moves to rejected has a
\* rejectionReason that is not empty after trimming, and a
\* rejectReconciliation or rejectFile call with an empty or blank reason
\* changes no entry, no file and no transaction.
C21_RejectionHasReason ==
    [][ /\ \A i \in 1..Len(reconciliationEntries) :
              (/\ reconciliationEntries'[i].status = "rejected"
               /\ reconciliationEntries[i].status # "rejected") =>
                 trim(reconciliationEntries'[i].rejectionReason) # ""
        /\ \A i \in 1..Len(fileUploads) :
              (/\ fileUploads'[i].status = "rejected"
               /\ fileUploads[i].status # "rejected") =>
                 trim(fileUploads'[i].rejectionReason) # ""
        /\ \A reason \in ReasonInputs :
              (/\ trim(reason) = ""
               /\ \/ \E entryId \in EntryIds : rejectReconciliation(entryId, reason)
                  \/ \E fileId \in FileIds : rejectFile(fileId, reason)) =>
                 UNCHANGED <<reconciliationEntries, fileUploads,
                             bankTransactions, systemTransactions>>
      ]_vars

\* the fields of a transaction the caller of addIndividualTransaction sets
CallerFields ==
    {"date", "amount", "description", "type", "reference", "source",
     "accountId", "transId"}

\* C22: an addIndividualTransaction step appends exactly one transaction to
\* the ledger of the input's source, unreconciled whatever status the input
\* carries and with the caller's other fields as passed; the other ledger,
\* the entries, the file uploads and the current user are unchanged.
C22_AddIndividualFrame ==
    [][ \A source \in {"bank", "system"}, amount \in AmountInputs,
           status \in StatusInputs :
           LET data == IndividualInput(source, amount, status)
               before == Ledger(source)
               after == LedgerNext(source)
           IN  addIndividualTransaction(data) =>
                  /\ Len(after) = Len(before) + 1
                  /\ SubSeq(after, 1, Len(before)) = before
                  /\ after[Len(after)].status = "unreconciled"
                  /\ \A f \in CallerFields : after[Len(after)][f] = data[f]
                  /\ source = "bank" => systemTransactions' = systemTransactions
                  /\ source = "system" => bankTransactions' = bankTransactions
                  /\ reconciliationEntries' = reconciliationEntries
                  /\ fileUploads' = fileUploads
                  /\ currentUser' = currentUser
      ]_vars

\* a transaction entered by hand is the last of the bank ledger, unreconciled
C22_Witness ==
    /\ Len(bankTransactions) > Len(mockBankTransactions)
    /\ LET t == bankTransactions[Len(bankTransactions)]
       IN  /\ t.id = <<"bank", now, 0>>
           /\ t.description = <<"Manual entry">>
           /\ t.status = "unreconciled"
    /\ Len(systemTransactions) = Len(mockSystemTransactions)

----------------------------------------------------------------------------
(* The file screen with its searches under way: FileUploadManager keeps the *)
(* page of the last search that completed.  A search is asked for by the    *)
(* effect on searchParams and debouncedSearch, through a debounce timer of  *)
(* 500 ms, and directly by the handlers of an upload and of an approval; it *)
(* completes 300 ms after it starts and reads the fileUploads of the render *)
(* whose onSearchFiles it calls.  Timers of equal delay fire in the order   *)
(* they were set and searches of equal delay complete in the order they     *)
(* started, so both are queues.  A change of fileUploads gives a new        *)
(* onSearchFiles and with it a new debouncedSearch with a timer of its own; *)
(* the timer of the current debouncedSearch, when one is pending, is the    *)
(* last of the queue.                                                       *)

\* user events on the file screen
MaxFileEvents == 4

\* a search asked for: its parameters and the fileUploads its closure reads
SearchRequest(params, files) == [params |-> params, files |-> files]

\* the screen as it is mounted, its first debounced search asked for, under
\* the role chosen in the Header
InitFiles ==
    /\ bankTransactions = mockBankTransactions
    /\ systemTransactions = mockSystemTransactions
    /\ reconciliationEntries = mockReconciliationEntries
    /\ fileUploads = mockFileUploads
    /\ currentUser \in {mockUsers[i] : i \in 1..Len(mockUsers)}
    /\ now = ClockStart
    /\ steps = 0
    /\ approvedInRun = {}
    /\ selectedBankTransaction = Null
    /\ selectedSystemTransaction = Null
    /\ selectedEntry = Null
    /\ selectedFile = Null
    /\ paginatedData = Null
    /\ searchParams = defaultSearchParams
    /\ debounceTimers = <<SearchRequest(defaultSearchParams, mockFileUploads)>>
    /\ inFlight = << >>
    /\ isLoading = FALSE
    /\ searchedFiles = Null

\* what follows a handler that has changed fileUploads when debouncedSearch
\* is kept over the change: the effect does not run
refreshAfterChange_SameDebounce ==
    /\ inFlight' = Append(inFlight, SearchRequest(searchParams, fileUploads))
    /\ isLoading' = TRUE
    /\ UNCHANGED debounceTimers

\* what follows a handler that has changed fileUploads: its
\* performSearch(searchParams) is the one of the render before the change and
\* reads the list of that render; the render after the change has a new
\* debouncedSearch, which the effect calls
refreshAfterChange ==
    /\ inFlight' = Append(inFlight, SearchRequest(searchParams, fileUploads))
    /\ isLoading' = TRUE
    /\ debounceTimers' = Append(debounceTimers, SearchRequest(searchParams, fileUploads'))

\* a millisecond passes
TimePasses ==
    /\ steps < MaxFileEvents
    /\ now' = now + 1
    /\ steps' = steps + 1
    /\ UNCHANGED <<store, approvedInRun, screens>>

\* FileUploadManager.handleFileUpload of an Excel file with the form filled
FileDropped ==
    /\ steps < MaxFileEvents
    /\ canUpload(currentUser.role)
    /\ handleFileUpload("upload.xlsx", "bank", "Branch B", "Daily", Undefined,
                        MinUploadCount)
    /\ refreshAfterChange
    /\ steps' = steps + 1
    /\ UNCHANGED <<now, approvedInRun, selectedBankTransaction,
                   selectedSystemTransaction, selectedEntry, selectedFile,
                   paginatedData, searchParams, searchedFiles>>

\* 'Details' / 'Hide Details' of a file of the list, which is rendered when
\* no search is awaited
DetailsClicked ==
    /\ steps < MaxFileEvents
    /\ ~isLoading
    /\ \E i \in 1..Len(listedFiles) :
          selectedFile' = IF selectedFile = <<listedFiles[i].id>>
                          THEN Null ELSE <<listedFiles[i].id>>
    /\ steps' = steps + 1
    /\ UNCHANGED <<store, now, approvedInRun, selectedBankTransaction,
                   selectedSystemTransaction, selectedEntry, paginatedData, searching>>

\* FileUploadManager.handleApprovalSubmit: the form is rendered in the
\* details of the selected file when the list shows it pending approval and
\* canApprove
ApprovalSubmitted ==
    /\ steps < MaxFileEvents
    /\ ~isLoading
    /\ selectedFile # Null
    /\ canApproveFile(currentUser.role)
    /\ \E i \in 1..Len(listedFiles) :
          /\ listedFiles[i].id = selectedFile[1]
          /\ listedFiles[i].status = "pending_approval"
    /\ \/ /\ ~approvalSubmitDisabled("approve", "")
          /\ approveFile(selectedFile[1])
       \/ \E reason \in ReasonInputs :
             /\ ~approvalSubmitDisabled("reject", reason)
             /\ trim(reason) # ""
             /\ rejectFile(selectedFile[1], reason)
    /\ selectedFile' = Null
    /\ refreshAfterChange
    /\ steps' = steps + 1
    /\ UNCHANGED <<now, approvedInRun, selectedBankTransaction,
                   selectedSystemTransaction, selectedEntry, paginatedData,
                   searchParams, searchedFiles>>

\* FileUploadManager.handleSearchSubmit with a status chosen: the new
\* searchParams make the effect call the current debouncedSearch, which
\* clears its timer and sets it again
SearchSubmitted ==
    /\ steps < MaxFileEvents
    /\ \E status \in {"all", "pending_approval"} :
          searchParams' = [searchParams EXCEPT !.status = status, !.page = 1]
    /\ debounceTimers' =
          Append(IF debounceTimers = << >> THEN << >>
                 ELSE SubSeq(debounceTimers, 1, Len(debounceTimers) - 1),
                 SearchRequest(searchParams', fileUploads))
    /\ steps' = steps + 1
    /\ UNCHANGED <<store, now, approvedInRun, selectedBankTransaction,
                   selectedSystemTransaction, selectedEntry, selectedFile,
                   paginatedData, inFlight, isLoading, searchedFiles>>

\* the oldest debounce timer fires: performSearch(params) starts
TimerFires ==
    /\ debounceTimers # << >>
    /\ inFlight' = Append(inFlight, Head(debounceTimers))
    /\ debounceTimers' = Tail(debounceTimers)
    /\ isLoading' = TRUE
    /\ UNCHANGED <<store, now, steps, approvedInRun, selectedBankTransaction,
                   selectedSystemTransaction, selectedEntry, selectedFile,
                   paginatedData, searchParams, searchedFiles>>

\* the oldest search completes: setPaginatedData(result), setIsLoading(false)
SearchCompletes ==
    /\ inFlight # << >>
    /\ paginatedData' =
          <<searchFileUploads(Head(inFlight).files, Head(inFlight).params)>>
    /\ searchedFiles' = <<Head(inFlight).files>>
    /\ inFlight' = Tail(inFlight)
    /\ isLoading' = FALSE
    /\ UNCHANGED <<store, now, steps, approvedInRun, selectedBankTransaction,
                   selectedSystemTransaction, selectedEntry, selectedFile,
                   searchParams, debounceTimers>>

NextFiles ==
    \/ TimePasses
    \/ FileDropped
    \/ DetailsClicked
    \/ ApprovalSubmitted
    \/ SearchSubmitted
    \/ TimerFires
    \/ SearchCompletes

SpecFiles == InitFiles /\ [][NextFiles]_vars

----------------------------------------------------------------------------
(* The reconcile screen and the approval queue side by side: App keeps the   *)
(* two selected transactions as the objects that were clicked, over every   *)
(* change of tab and of the store, until the form is submitted or cancelled *)

\* user events on the two screens
MaxMatchEvents == 5

\* the two screens as they are mounted, under the role chosen in the Header
InitMatch ==
    /\ bankTransactions = mockBankTransactions
    /\ systemTransactions = mockSystemTransactions
    /\ reconciliationEntries = mockReconciliationEntries
    /\ fileUploads = mockFileUploads
    /\ currentUser \in {mockUsers[i] : i \in 1..Len(mockUsers)}
    /\ now = ClockStart
    /\ steps = 0
    /\ approvedInRun = {}
    /\ selectedBankTransaction = Null
    /\ selectedSystemTransaction = Null
    /\ selectedEntry = Null
    /\ selectedFile = Null
    /\ paginatedData = Null
    /\ searchParams = defaultSearchParams
    /\ debounceTimers = << >>
    /\ inFlight = << >>
    /\ isLoading = FALSE
    /\ searchedFiles = Null

\* TransactionList click in the bank column, which lists
\* unreconciled(bankTransactions)
BankRowClicked ==
    /\ steps < MaxMatchEvents
    /\ \E i \in Selectable(unreconciled(bankTransactions)) :
          selectedBankTransaction' = <<unreconciled(bankTransactions)[i]>>
    /\ steps' = steps + 1
    /\ UNCHANGED <<store, now, approvedInRun, selectedSystemTransaction,
                   selectedEntry, selectedFile, paginatedData, searching>>

\* TransactionList click in the system column, which lists
\* unreconciled(systemTransactions)
SystemRowClicked ==
    /\ steps < MaxMatchEvents
    /\ \E i \in Selectable(unreconciled(systemTransactions)) :
          selectedSystemTransaction' = <<unreconciled(systemTransactions)[i]>>
    /\ steps' = steps + 1
    /\ UNCHANGED <<store, now, approvedInRun, selectedBankTransaction,
                   selectedEntry, selectedFile, paginatedData, searching>>

\* ReconciliationForm submit -> App.handleCreateReconciliation with the two
\* transactions App holds
MatchSubmitted ==
    /\ steps < MaxMatchEvents
    /\ selectedBankTransaction # Null
    /\ selectedSystemTransaction # Null
    /\ ~submitDisabled(currentUser.role)
    /\ \E c \in CommentInputs :
          handleFormSubmit(selectedBankTransaction[1], selectedSystemTransaction[1], c)
    /\ selectedBankTransaction' = Null
    /\ selectedSystemTransaction' = Null
    /\ steps' = steps + 1
    /\ UNCHANGED <<now, approvedInRun, selectedEntry, selectedFile, paginatedData, searching>>

\* ApprovalQueue 'View Details' / 'Hide Details' of a listed entry
EntryClicked ==
    /\ steps < MaxMatchEvents
    /\ \E i \in 1..Len(reconciliationEntries) :
          selectedEntry' = IF selectedEntry = <<reconciliationEntries[i].id>>
                           THEN Null ELSE <<reconciliationEntries[i].id>>
    /\ steps' = steps + 1
    /\ UNCHANGED <<store, now, approvedInRun, selectedBankTransaction,
                   selectedSystemTransaction, selectedFile, paginatedData, searching>>

\* ApprovalQueue.handleFormSubmit for the selected entry, shown pending
\* approval to a role that canApprove
DecisionSubmitted ==
    /\ steps < MaxMatchEvents
    /\ selectedEntry # Null
    /\ canApprove(currentUser.role)
    /\ \E i \in 1..Len(reconciliationEntries) :
          /\ reconciliationEntries[i].id = selectedEntry[1]
          /\ reconciliationEntries[i].status = "pending_approval"
    /\ \/ /\ ~approvalSubmitDisabled("approve", "")
          /\ \E c \in CommentInputs : approveReconciliation(selectedEntry[1], c)
          /\ approvedInRun' = approvedInRun \cup EntriesWithId(selectedEntry[1])
       \/ /\ \E reason \in ReasonInputs :
                /\ ~approvalSubmitDisabled("reject", reason)
                /\ trim(reason) # ""
                /\ rejectReconciliation(selectedEntry[1], reason)
          /\ UNCHANGED approvedInRun
    /\ selectedEntry' = Null
    /\ steps' = steps + 1
    /\ UNCHANGED <<now, selectedBankTransaction, selectedSystemTransaction,
                   selectedFile, paginatedData, searching>>

NextMatch ==
    \/ BankRowClicked
    \/ SystemRowClicked
    \/ MatchSubmitted
    \/ EntryClicked
    \/ DecisionSubmitted

SpecMatch == InitMatch /\ [][NextMatch]_vars

----------------------------------------------------------------------------
(* searchFileUploads *)

\* the field is present and contains the term, letter case aside
Contains(field, term) ==
    /\ field # Undefined
    /\ LET text == toLowerCase(field)
           part == toLowerCase(term)
       IN  \E i \in 1..(Len(text) - Len(part) + 1) :
              SubSeq(text, i, i + Len(part) - 1) = part

\* the filter is absent, empty or 'all'
NoFilter(value) == value \in {Undefined, "", "all"}

\* the text has nothing but blanks
Blank(text) == \A i \in 1..Len(text) : SubSeq(text, i, i) = " "

\* the file satisfies every filter of the parameters
Matches(file, params) ==
    /\ NoFilter(params.organization) \/ Contains(file.organization, params.organization)
    /\ NoFilter(params.schedule) \/ Contains(file.schedule, params.schedule)
    /\ NoFilter(params.status) \/ file.status = params.status
    /\ \/ params.searchTerm = Undefined
       \/ Blank(params.searchTerm)
       \/ \E field \in {"fileName", "uploadedBy", "remarks", "organization", "schedule"} :
             Contains(file[field], params.searchTerm)

\* the store's files that satisfy every filter, in the store's order
Matching(params) == SelectSeq(fileUploads, LAMBDA file : Matches(file, params))

\* the k-th of the four filters
applyFilter(k, files, params) ==
    CASE k = 1 -> byOrganization(files, params)
      [] k = 2 -> bySchedule(files, params)
      [] k = 3 -> byStatus(files, params)
      [] k = 4 -> bySearchTerm(files, params)

\* the filters applied in the order order[1], ..., order[n]
RECURSIVE applyInOrder(_, _, _, _)
applyInOrder(order, n, files, params) ==
    IF n = 0 THEN files
    ELSE applyFilter(order[n], applyInOrder(order, n - 1, files, params), params)

\* the whole sorted result: the search for the same filters with one page
\* that holds every file
WholeResult(params) ==
    searchFileUploads(fileUploads,
        [params EXCEPT !.page = 1, !.pageSize = Len(fileUploads) + 1]).data

\* C23: before pagination a search keeps exactly the files that satisfy every
\* filter given (organization, schedule: absent or 'all' is no filter,
\* otherwise a case-insensitive substring; status: absent or 'all' is no
\* filter, otherwise equality; searchTerm: absent or blank is no filter,
\* otherwise a case-insensitive substring of fileName, uploadedBy, remarks,
\* organization or schedule), and the four filters give the same files in
\* whatever order they are applied.
C23_FiltersAreConjunction ==
    /\ filteredFiles(fileUploads, searchParams) = Matching(searchParams)
    /\ searchFileUploads(fileUploads, searchParams).pagination.totalItems
          = Len(Matching(searchParams))
    /\ \A order \in Permutations(1..4) :
          applyInOrder(order, 4, fileUploads, searchParams) = Matching(searchParams)

\* a search has been made where all four filters are set and keep some files of the store but not all
C23_Witness ==
    /\ paginatedData = <<searchFileUploads(fileUploads, searchParams)>>
    /\ ~NoFilter(searchParams.organization)
    /\ ~NoFilter(searchParams.schedule)
    /\ ~NoFilter(searchParams.status)
    /\ ~Blank(searchParams.searchTerm)
    /\ Len(filteredFiles(fileUploads, searchParams)) > 0
    /\ Len(filteredFiles(fileUploads, searchParams)) < Len(fileUploads)

\* the files of the sequence uploaded at the time
UploadedAt(files, time) == SelectSeq(files, LAMBDA file : file.uploadedAt = time)

\* C24: the files of a search result are in descending order of uploadedAt,
\* and files with the same uploadedAt are in the order they have in the
\* store.
C24_NewestFirstStable ==
    LET sorted == WholeResult(searchParams)
    IN  /\ \A i \in 1..(Len(sorted) - 1) :
              sorted[i].uploadedAt >= sorted[i + 1].uploadedAt
        /\ \A k \in 1..Len(fileUploads) :
              UploadedAt(sorted, fileUploads[k].uploadedAt)
                 = UploadedAt(Matching(searchParams), fileUploads[k].uploadedAt)

\* the result of a search made holds two different files uploaded in the same millisecond,
\* before an older one
C24_Witness ==
    LET sorted == WholeResult(searchParams)
    IN  \E i \in 1..(Len(sorted) - 2) :
           /\ paginatedData = <<searchFileUploads(fileUploads, searchParams)>>
           /\ sorted[i].uploadedAt = sorted[i + 1].uploadedAt
           /\ sorted[i] # sorted[i + 1]
           /\ sorted[i + 1].uploadedAt > sorted[i + 2].uploadedAt

\* the least number of pages of the size that hold the items
PagesNeeded(totalItems, pageSize) ==
    CHOOSE n \in 0..totalItems :
        /\ n * pageSize >= totalItems
        /\ \A m \in 0..(n - 1) : m * pageSize < totalItems

\* C25: for page >= 1 and pageSize > 0 the pagination of a search result has
\* totalItems = the number of files passing the filters, totalPages =
\* ceil(totalItems / pageSize) (0 for no items), currentPage = page,
\* hasNextPage = (page < totalPages), hasPreviousPage = (page > 1), and the
\* result's filters are the requested ones.
C25_PaginationDescriptor ==
    LET result == searchFileUploads(fileUploads, searchParams)
        totalItems == Len(Matching(searchParams))
        totalPages == PagesNeeded(totalItems, searchParams.pageSize)
    IN  /\ searchParams.page >= 1 /\ searchParams.pageSize > 0
        /\ result.pagination.totalItems = totalItems
        /\ result.pagination.totalPages = totalPages
        /\ totalItems = 0 => result.pagination.totalPages = 0
        /\ result.pagination.currentPage = searchParams.page
        /\ result.pagination.pageSize = searchParams.pageSize
        /\ result.pagination.hasNextPage = (searchParams.page < totalPages)
        /\ result.pagination.hasPreviousPage = (searchParams.page > 1)
        /\ result.filters = [organization |-> searchParams.organization,
                             schedule |-> searchParams.schedule,
                             status |-> searchParams.status,
                             searchTerm |-> searchParams.searchTerm]

\* a search made for page 2 of size 2 over three files: one item, a previous page
\* and no next page
C25_Witness ==
    LET result == searchFileUploads(fileUploads, searchParams)
    IN  /\ paginatedData = <<result>>
        /\ searchParams.page = 2
        /\ searchParams.pageSize = 2
        /\ result.pagination.totalItems = 3
        /\ result.pagination.totalPages = 2
        /\ Len(result.data) = 1
        /\ result.pagination.hasPreviousPage
        /\ ~result.pagination.hasNextPage

\* the search for the same filters and page size, for the page
PageOf(params, page) ==
    searchFileUploads(fileUploads, [params EXCEPT !.page = page])

\* the data of the pages 1..n in a row
RECURSIVE PagesInARow(_, _)
PagesInARow(params, n) ==
    IF n = 0 THEN << >>
    ELSE PagesInARow(params, n - 1) \o PageOf(params, n).data

\* C26: for fixed filters and page size and an unchanged store, the data of
\* the pages 1..totalPages in a row are the filtered, sorted list, each page
\* holds at most pageSize files, and a page beyond totalPages is empty.
C26_PagesPartition ==
    LET totalPages == PageOf(searchParams, 1).pagination.totalPages
        totalItems == PageOf(searchParams, 1).pagination.totalItems
    IN  /\ PagesInARow(searchParams, totalPages) = WholeResult(searchParams)
        /\ Len(PagesInARow(searchParams, totalPages)) = totalItems
        /\ \A page \in 1..totalPages :
              /\ Len(PageOf(searchParams, page).data) <= searchParams.pageSize
              /\ Len(PageOf(searchParams, page).data) > 0
        /\ \A page \in (totalPages + 1)..(totalPages + 2) :
              PageOf(searchParams, page).data = << >>

\* the result has a full page, a last page that is not full, and the search
\* made asked for a page beyond them
C26_Witness ==
    LET totalPages == PageOf(searchParams, 1).pagination.totalPages
    IN  /\ totalPages >= 2
        /\ Len(PageOf(searchParams, 1).data) = searchParams.pageSize
        /\ Len(PageOf(searchParams, totalPages).data) < searchParams.pageSize
        /\ searchParams.page > totalPages
        /\ paginatedData = <<searchFileUploads(fileUploads, searchParams)>>
        /\ paginatedData[1].data = << >>

\* the step is a search of the store as it is
IsSearchStep ==
    /\ paginatedData' # Null
    /\ searchedFiles' = <<fileUploads>>
    /\ now' = now
    /\ Len(fileUploads') = Len(fileUploads)

----------------------------------------------------------------------------
(* The file screen and its searches *)

\* C28: under every interleaving of the user's actions on the file screen
\* with its timers and searches, approveFile runs only for a file that is
\* pending approval in the store, so never twice for one file and never for
\* a rejected one, and the file's transactions are not in the ledger yet.
C28_ApprovedOnceWhilePending ==
    [][ \A k \in 1..Len(fileUploads) :
          approveFile(fileUploads[k].id) =>
             LET file == fileUploads[findIndex(fileUploads, fileUploads[k].id)]
             IN  /\ file.status = "pending_approval"
                 /\ Ids(file.transactions) \cap Ids(Ledger(file.source)) = {}
      ]_vars

\* the page held is the search of the store as it is for the parameters as
\* they are
ShowsTheStore == paginatedData = <<searchFileUploads(fileUploads, searchParams)>>

\* no timer is pending and no search is under way
Quiescent == debounceTimers = << >> /\ inFlight = << >>

\* C30: whenever every debounce timer has fired and every search has
\* completed, after whatever uploads, approvals, rejections and changes of
\* the parameters, the page held is the search of the store as it is for the
\* parameters as they are, never the answer to an older request or a read of
\* an older list.
C30_ListCatchesUp == Quiescent => ShowsTheStore

\* after an approval or a rejection and a change of the filter everything has
\* run to its end and the page shows the store
C30_Witness ==
    /\ Quiescent
    /\ \E k \in 1..Len(mockFileUploads) :
          /\ mockFileUploads[k].status = "pending_approval"
          /\ fileUploads[k].status # "pending_approval"
    /\ searchParams.status = "pending_approval"
    /\ ShowsTheStore

\* the statuses the store holds for the transactions with the id
StoreStatuses(transactions, id) ==
    {transactions[i].status : i \in {j \in 1..Len(transactions) : transactions[j].id = id}}

\* C29: when the reconcile form is submitted, neither the bank transaction
\* nor the system transaction it passes to createReconciliation is pending
\* or reconciled in the store at that moment.
C29_MatchesOnlyUnreconciled ==
    [][ (/\ selectedBankTransaction # Null
         /\ selectedSystemTransaction # Null
         /\ \E c \in CommentInputs :
               handleFormSubmit(selectedBankTransaction[1],
                                selectedSystemTransaction[1], c)) =>
          /\ StoreStatuses(bankTransactions, selectedBankTransaction[1].id)
                \cap {"pending", "reconciled"} = {}
          /\ StoreStatuses(systemTransactions, selectedSystemTransaction[1].id)
                \cap {"pending", "reconciled"} = {}
      ]_vars

====
